---- MODULE Spec2Model ----
(***************************************************************************)
(* Model of the repository crawler of freepoprompt:                        *)
(*   backend/core/path_utils.py  (sanitize_path, validate_path,            *)
(*                                secure_join)                             *)
(*   backend/core/crawler.py     (RepositoryCrawler)                       *)
(*   backend/core/file_handler.py (FileHandler)                            *)
(*                                                                         *)
(* Strings are sequences of one-character strings, paths are sequences of  *)
(* names (a path is absolute: its first name lies in the base directory),  *)
(* the filesystem is a function from the paths of a small universe to      *)
(* entries (absent, file, dir, link with a target path).                   *)
(*                                                                         *)
(* pathlib is modelled as in Python up to 3.12: Path.resolve() follows     *)
(* symlinks, keeps components that do not exist, and raises on a symlink   *)
(* loop.  str(hash(s)) is modelled as a collision-free tag of s.           *)
(***************************************************************************)
EXTENDS Integers, Sequences, FiniteSets, TLC

VARIABLES
    fs,          \* the filesystem: path -> entry
    rev,         \* directory enumeration order of the OS (FALSE: by name, TRUE: reversed)
    crawler,     \* "none" before construction, "live" after, "failed" if __init__ raised
    root_path,   \* RepositoryCrawler.root_path
    config,      \* RepositoryCrawler.config
    cache,       \* RepositoryCrawler._file_tree_cache  (NoTree = None)
    cfg_hash,    \* RepositoryCrawler._config_hash      (NoHash = None)
    arg,         \* the argument of the last validate_path call
    ret,         \* the last call and its outcome
    walked,      \* whether the last get_file_tree walked the filesystem
    call,        \* the get_file_tree call a second thread is in the middle of
    handler,     \* the FileHandler: its root_path and allow_writes
    data,        \* what the files of the universe hold
    session      \* the sidebar: st.session_state, default_config, config/config.yaml

vars ==
    <<fs, rev, crawler, root_path, config, cache, cfg_hash, arg, ret, walked, call, handler,
      data, session>>

crawlerVars == <<crawler, root_path, config, cache, cfg_hash>>

otherVars == <<call, handler, data, session>>

----------------------------------------------------------------------------
(* Bounds *)

\* symlink hops Resolve follows before it reports a loop (more than the links of the universe)
MaxHops == 3

\* the latest reading of the clock (datetime.now()) by the fingerprint fallback
MaxClock == 2

----------------------------------------------------------------------------
(* Strings and names *)

\* the characters of the model in code point order
Alphabet ==
    <<"*", ",", ".", "/", ":", "?", "L", "b", "d", "e", "f", "g", "i", "l", "o", "r",
      "s", "x", "|">>

Ord(c) == CHOOSE i \in 1..Len(Alphabet) : Alphabet[i] = c

R == <<"r">>
O == <<"o">>
D == <<"d">>
L == <<"l">>
X == <<"x">>
G == <<"g">>

\* a list element that is not a str (an int loaded from YAML)
NonStr == <<"#int">>

IsStr(e) == e # NonStr

RECURSIVE StrLess(_, _)
\* Python's str.__lt__: lexicographic by code point
StrLess(a, b) ==
    IF b = <<>> THEN FALSE
    ELSE IF a = <<>> THEN TRUE
    ELSE IF Head(a) = Head(b) THEN StrLess(Tail(a), Tail(b))
    ELSE Ord(Head(a)) < Ord(Head(b))

RECURSIVE Insert(_, _)
Insert(e, s) ==
    IF s = <<>> THEN <<e>>
    ELSE IF StrLess(e, Head(s)) THEN <<e>> \o s
    ELSE <<Head(s)>> \o Insert(e, Tail(s))

RECURSIVE Sorted(_)
\* the list left in the order the caller gave it
Sorted_AsGiven(s) == s

\* sorted(list of str)
Sorted(s) == IF s = <<>> THEN <<>> ELSE Insert(Head(s), Sorted(Tail(s)))

RECURSIVE Join(_, _)
\* sep.join(list of str)
Join(sep, s) ==
    IF s = <<>> THEN <<>>
    ELSE IF Len(s) = 1 THEN Head(s)
    ELSE Head(s) \o sep \o Join(sep, Tail(s))

RECURSIVE Reverse(_)
Reverse(s) == IF s = <<>> THEN <<>> ELSE Append(Reverse(Tail(s)), Head(s))

RECURSIVE SelectNames(_, _)
\* the names of sequence s that lie in set S, in the order of s
SelectNames(s, S) ==
    IF s = <<>> THEN <<>>
    ELSE IF Head(s) \in S THEN <<Head(s)>> \o SelectNames(Tail(s), S)
    ELSE SelectNames(Tail(s), S)

Front(s) == SubSeq(s, 1, Len(s) - 1)

Last(s) == s[Len(s)]

IsPrefix(p, q) == Len(p) <= Len(q) /\ SubSeq(q, 1, Len(p)) = p

----------------------------------------------------------------------------
(* The filesystem *)

Absent == [k |-> "absent", to |-> <<>>]
File == [k |-> "file", to |-> <<>>]
Dir == [k |-> "dir", to |-> <<>>]
Link(t) == [k |-> "link", to |-> t]

\* what each path of the universe may hold
Options(p) ==
    CASE p = <<R>> -> {Absent, Dir, Link(<<O>>), Link(<<R>>)}
      [] p = <<R, D>> -> {Absent, Dir}
      [] p = <<R, D, X>> -> {Absent, File}
      [] p = <<R, L>> -> {Absent, Link(<<R, D>>), Link(<<R, D, X>>), Link(<<O, G>>), Link(<<R, L>>)}
      [] p = <<R, X>> -> {Absent, File}
      [] p = <<O>> -> {Dir}
      [] p = <<O, G>> -> {File}

Universe == {<<R>>, <<R, D>>, <<R, D, X>>, <<R, L>>, <<R, X>>, <<O>>, <<O, G>>}

\* the names a directory listing is sorted by
NameOrder == <<D, G, L, O, R, X>>

\* lstat: the entry at a physical path, not following a final symlink
Entry(f, p) == IF p \in DOMAIN f THEN f[p] ELSE IF p = <<>> THEN Dir ELSE Absent

IsLink(f, p) == Entry(f, p).k = "link"

\* every entry lies in a directory
WellFormed(f) ==
    \A p \in DOMAIN f : f[p] # Absent => Entry(f, Front(p)).k = "dir"

MkFs(r, d, dx, l, x) ==
    (<<R>> :> r) @@ (<<R, D>> :> d) @@ (<<R, D, X>> :> dx) @@ (<<R, L>> :> l) @@
    (<<R, X>> :> x) @@ (<<O>> :> Dir) @@ (<<O, G>> :> File)

\* the filesystems of the universe
FsStates ==
    {f \in {MkFs(r, d, dx, l, x) : r \in Options(<<R>>), d \in Options(<<R, D>>),
                                   dx \in Options(<<R, D, X>>), l \in Options(<<R, L>>),
                                   x \in Options(<<R, X>>)} : WellFormed(f)}

\* the paths strictly below p
Below(p) == {q \in Universe : q # p /\ IsPrefix(p, q)}

\* the filesystem after another process replaces what path p holds by entry e:
\* what lay below a removed or replaced directory goes with it
Replace(f, p, e) ==
    [q \in Universe |-> IF q = p THEN e
                        ELSE IF q \in Below(p) /\ e.k # "dir" THEN Absent
                        ELSE f[q]]

\* the paths of the universe that may hold a file
FilePaths == {p \in Universe : File \in Options(p)}

\* what a file holds: text that is valid UTF-8, bytes that are not, or the
\* content a write_file call was given
Contents == {"text", "bin", "new"}

\* every file holds valid UTF-8 text
AllText == [p \in FilePaths |-> "text"]

----------------------------------------------------------------------------
(* path_utils.py *)

\* the outcome of a path operation that raised
ErrPath == << <<"!">> >>

\* root_path=None
NoRoot == << <<"None">> >>

RECURSIVE ResolveFrom(_, _, _, _)
\* os.path.realpath: done is the resolved prefix, rest the components still to
\* resolve; a link is replaced by its (absolute) target, a component that does
\* not exist is kept, and a loop is an error
ResolveFrom(f, done, rest, fuel) ==
    IF rest = <<>> THEN done
    ELSE LET q == Append(done, Head(rest)) IN
         IF IsLink(f, q)
         THEN IF fuel = 0 THEN ErrPath
              ELSE ResolveFrom(f, <<>>, Entry(f, q).to \o Tail(rest), fuel - 1)
         ELSE ResolveFrom(f, q, Tail(rest), fuel)

\* Path(p).resolve()
Resolve(f, p) == ResolveFrom(f, <<>>, p, MaxHops)

\* sanitize_path: the resolved path, ErrPath when resolve raised (ValueError)
sanitize_path(f, p) == Resolve(f, p)

\* Path.exists() of a resolved path
Exists(f, p) == Entry(f, p).k \in {"file", "dir"}

\* Path.is_dir() following symlinks
IsDir(f, p) == LET q == Resolve(f, p) IN q # ErrPath /\ Entry(f, q).k = "dir"

\* validate_path with the existence check made whatever allow_nonexistent says
validate_path_Strict(f, file_path, root, allow_nonexistent) ==
    LET path == sanitize_path(f, file_path) IN
    IF path = ErrPath THEN FALSE
    ELSE IF ~Exists(f, path) THEN FALSE
    ELSE IF IsLink(f, path) THEN FALSE
    ELSE IF root # NoRoot
         THEN LET rt == sanitize_path(f, root) IN
              IF rt = ErrPath THEN FALSE ELSE IsPrefix(rt, path)
         ELSE TRUE

\* validate_path(file_path, root, allow_nonexistent): whether it returns True
validate_path(f, file_path, root, allow_nonexistent) ==
    LET path == sanitize_path(f, file_path) IN
    IF path = ErrPath THEN FALSE
    ELSE IF ~allow_nonexistent /\ ~Exists(f, path) THEN FALSE
    ELSE IF IsLink(f, path) THEN FALSE
    ELSE IF root # NoRoot
         THEN LET rt == sanitize_path(f, root) IN
              IF rt = ErrPath THEN FALSE
              ELSE LET check_path == IF allow_nonexistent /\ ~Exists(f, path)
                                     THEN Front(path) ELSE path
                   IN IsPrefix(rt, check_path)
         ELSE TRUE

\* secure_join(base, name): ErrPath when it raised (ValueError)
secure_join(f, base, name) ==
    LET base_path == sanitize_path(f, base) IN
    IF base_path = ErrPath THEN ErrPath
    ELSE Resolve(f, Append(base_path, name))

----------------------------------------------------------------------------
(* crawler.py: configuration, fingerprint, ignore rules *)

\* Python values a caller passes for a pattern list
PyList(v) == [t |-> "list", v |-> v]
PyStr(v) == [t |-> "str", v |-> v]
PyInt == [t |-> "int", v |-> <<>>]
PyMissing == [t |-> "missing", v |-> <<>>]

\* a caller's config dict: nc says whether it is a dict at all, ip what it holds
\* under 'ignore_patterns' ("dict", "missing" or "other"), dirs/files what that
\* dict holds under 'directories'/'files', ee what 'excluded_extensions' holds
PyConfig(ip, dirs, files, ee) == [nc |-> "dict", ip |-> ip, dirs |-> dirs, files |-> files, ee |-> ee]
PyNone == [nc |-> "none", ip |-> "missing", dirs |-> PyMissing, files |-> PyMissing, ee |-> PyMissing]

\* list(x) raised TypeError
ErrList == << <<"!">> >>

\* list(d.get(key, [])): a list is copied, a str gives its characters, a
\* missing key gives [], an int raises TypeError
ToList(pv) ==
    CASE pv.t = "list" -> pv.v
      [] pv.t = "str" -> [i \in 1..Len(pv.v) |-> <<pv.v[i]>>]
      [] pv.t = "missing" -> <<>>
      [] OTHER -> ErrList

Config(dirs, files, exts) == [dirs |-> dirs, files |-> files, exts |-> exts]

NoConfig == Config(<<>>, <<>>, <<>>)

AllPatterns(c) == c.dirs \o c.files \o c.exts

AllStr(s) == \A i \in 1..Len(s) : IsStr(s[i])

\* str(hash(s)), taken to be free of collisions
Hash(s) == [src |-> "hash", v |-> s]

NoHash == [src |-> "None", v |-> <<>>]

\* the f-string of _get_config_hash
ConfigStr(c) ==
    <<"d", "i", "r", "s", ":">> \o Join(<<",">>, Sorted(c.dirs)) \o
    <<"|", "f", "i", "l", "e", "s", ":">> \o Join(<<",">>, Sorted(c.files)) \o
    <<"|", "e", "x", "t", "s", ":">> \o Join(<<",">>, Sorted(c.exts))

\* whether _get_config_hash takes its except branch: str.join raises TypeError
\* on an element that is not a str
HashFails(c) == ~AllStr(AllPatterns(c))

\* the clock reading a fingerprint was made of, 0 if of none
LastReading(h) == IF h.src = "time" THEN h.v[1] ELSE 0

\* what datetime.now() may return to a crawler whose cached fingerprint is h:
\* the clock has advanced since any reading held in the cache
Readings(h) == {t \in 1..MaxClock : t > LastReading(h)}

\* A fingerprint whose fallback is the same value at every call.
_get_config_hash_Fixed(c, t) ==
    IF HashFails(c) THEN Hash(<<>>) ELSE Hash(ConfigStr(c))

\* _get_config_hash at clock reading t
_get_config_hash(c, t) ==
    IF HashFails(c) THEN [src |-> "time", v |-> <<t>>] ELSE Hash(ConfigStr(c))

RECURSIVE fnmatch(_, _)
\* fnmatch.fnmatch(name, pat) for patterns of literals, * and ?
fnmatch(name, pat) ==
    IF pat = <<>> THEN name = <<>>
    ELSE IF Head(pat) = "*"
         THEN fnmatch(name, Tail(pat)) \/ (name # <<>> /\ fnmatch(Tail(name), pat))
    ELSE IF name = <<>> THEN FALSE
    ELSE (Head(pat) = "?" \/ Head(pat) = Head(name)) /\ fnmatch(Tail(name), Tail(pat))

\* any(fnmatch.fnmatch(name, pattern) for pattern in patterns), within the
\* try of _is_ignored: a pattern that is not a str raises, which also gives True
AnyMatch(name, patterns) ==
    \E i \in 1..Len(patterns) : ~IsStr(patterns[i]) \/ fnmatch(name, patterns[i])

\* str.lower() of a character
Lower(ch) == IF ch = "L" THEN "l" ELSE ch

\* the positions of '.' in name
Dots(name) == {i \in 1..Len(name) : name[i] = "."}

\* Path(name).suffix.lower()
Suffix(name) ==
    IF Dots(name) = {} THEN <<>>
    ELSE LET i == CHOOSE j \in Dots(name) : \A k \in Dots(name) : k <= j IN
         IF 1 < i /\ i < Len(name)
         THEN [j \in 1..(Len(name) - i + 1) |-> Lower(name[i + j - 1])]
         ELSE <<>>

\* a name taken to be the whole of the path string it was given
PathName_Whole(s) == s

RECURSIVE PathName(_)
\* Path(path).name of a path string without a trailing '/': what follows the last '/'
PathName(s) ==
    IF s = <<>> THEN <<>>
    ELSE IF Last(s) = "/" THEN <<>>
    ELSE Append(PathName(Front(s)), Last(s))

\* _is_ignored(path, is_dir) under configuration c; path is a path string or a bare name
_is_ignored(c, path, is_dir) ==
    LET path_str == PathName(path) IN
    IF is_dir THEN AnyMatch(path_str, c.dirs)
    ELSE \/ AnyMatch(path_str, c.files)
         \/ \E i \in 1..Len(c.exts) : IsStr(c.exts[i]) /\ c.exts[i] = Suffix(path_str)

----------------------------------------------------------------------------
(* crawler.py: os.walk, the tree, the flat list *)

\* the names directly inside the physical directory pd
NamesIn(f, pd) == {Last(q) : q \in {u \in Universe : Front(u) = pd /\ f[u] # Absent}}

\* os.scandir(pd), in the order the OS yields the entries
Listing(f, r, pd) ==
    LET s == SelectNames(NameOrder, NamesIn(f, pd)) IN IF r THEN Reverse(s) ELSE s

\* os.walk's dirs: the entries for which DirEntry.is_dir() holds (it follows symlinks)
WalkDirs(f, r, pd) == SelectNames(Listing(f, r, pd), {n \in NamesIn(f, pd) : IsDir(f, Append(pd, n))})

\* os.walk's files: the other entries
WalkFiles(f, r, pd) == SelectNames(Listing(f, r, pd), {n \in NamesIn(f, pd) : ~IsDir(f, Append(pd, n))})

\* a tree is the sequence of its nodes in the order they were attached; parent
\* is the index of the node whose children list holds the node (0 for the root
\* node), so a node's children are, in order, the later nodes that name it
Node(path, type, parent) == [path |-> path, type |-> type, parent |-> parent]

NoTree == << Node(<< <<"None">> >>, "None", 0) >>

\* the outcome of a call that raised
Raised == << Node(ErrPath, "raised", 0) >>

RootOnly(rp) == << Node(rp, "directory", 0) >>

Children(tree, i) == {j \in 1..Len(tree) : tree[j].parent = i}

Min(S) == CHOOSE x \in S : \A y \in S : x <= y

RECURSIVE Descend(_, _, _)
\* the loop of _get_node_at_path: the first child named part, for each part;
\* a file node has no 'children' (KeyError, caught: None); 0 is None
Descend(tree, cur, parts) ==
    IF parts = <<>> THEN cur
    ELSE IF tree[cur].type # "directory" THEN 0
    ELSE LET kids == {j \in Children(tree, cur) : Last(tree[j].path) = Head(parts)} IN
         IF kids = {} THEN 0 ELSE Descend(tree, Min(kids), Tail(parts))

\* a lookup that takes the root node for every directory under the root
_get_node_at_path_Root(tree, rp, path) == IF IsPrefix(rp, path) THEN 1 ELSE 0

\* the index of the node found, 0 for None (relative_to raising included)
_get_node_at_path(tree, rp, path) ==
    IF path = rp THEN 1
    ELSE IF ~IsPrefix(rp, path) THEN 0
    ELSE Descend(tree, 1, SubSeq(path, Len(rp) + 1, Len(path)))

RECURSIVE Attach(_, _, _, _, _, _, _)
\* the two for loops of get_file_tree over the retained names of one directory:
\* secure_join (which may raise), validate_path, append to the node's children
Attach(f, rp, tree, node, root, names, type) ==
    IF names = <<>> THEN tree
    ELSE LET path == secure_join(f, root, Head(names)) IN
         IF path = ErrPath THEN Raised
         ELSE Attach(f, rp,
                     IF validate_path(f, path, rp, TRUE)
                     THEN Append(tree, Node(path, type, node)) ELSE tree,
                     node, root, Tail(names), type)

RECURSIVE Keep(_, _, _)
\* [n for n in names if not self._is_ignored(n, is_dir)]
Keep(c, names, is_dir) ==
    IF names = <<>> THEN <<>>
    ELSE IF _is_ignored(c, Head(names), is_dir) THEN Keep(c, Tail(names), is_dir)
    ELSE <<Head(names)>> \o Keep(c, Tail(names), is_dir)

RECURSIVE Unlinked(_, _, _)
\* os.walk descends into the dirs left in the list that are not symlinks
Unlinked(f, pd, names) ==
    IF names = <<>> THEN <<>>
    ELSE IF IsLink(f, Append(pd, Head(names))) THEN Unlinked(f, pd, Tail(names))
    ELSE <<Head(names)>> \o Unlinked(f, pd, Tail(names))

\* one iteration of the for loop of get_file_tree over os.walk(root_path): the
\* directory os.walk yields next is processed; stack holds the directories
\* os.walk has still to yield, the next one first
TreeStep(f, r, rp, c, stack, tree) ==
    LET root == Head(stack) IN
    IF ~IsDir(f, root) THEN [stack |-> Tail(stack), tree |-> tree]
    ELSE LET pd == Resolve(f, root)
             node == IF validate_path(f, root, rp, TRUE)
                     THEN _get_node_at_path(tree, rp, root) ELSE 0
             \* on continue the dirs list is left as os.walk made it
             dirs == IF node = 0 THEN WalkDirs(f, r, pd)
                     ELSE Keep(c, WalkDirs(f, r, pd), TRUE)
             files == Keep(c, WalkFiles(f, r, pd), FALSE)
             t1 == IF node = 0 THEN tree
                   ELSE Attach(f, rp, tree, node, root, dirs, "directory")
             t2 == IF node = 0 \/ t1 = Raised THEN t1
                   ELSE Attach(f, rp, t1, node, root, files, "file")
             next == [i \in 1..Len(Unlinked(f, pd, dirs)) |->
                         Append(root, Unlinked(f, pd, dirs)[i])]
         IN [stack |-> next \o Tail(stack), tree |-> t2]

RECURSIVE TreeWalk(_, _, _, _, _, _)
\* the for loop of get_file_tree over os.walk(root_path), run to its end
TreeWalk(f, r, rp, c, stack, tree) ==
    IF tree = Raised THEN Raised
    ELSE IF stack = <<>> THEN tree
    ELSE \* the step's result is bound as a value, so that it is computed once
         CHOOSE t \in {TreeWalk(f, r, rp, c, s.stack, s.tree) :
                          s \in {TreeStep(f, r, rp, c, stack, tree)}} : TRUE

RECURSIVE FlatFiles(_, _, _, _, _)
\* the inner for loop of walk() over the files of one directory
FlatFiles(f, rp, root, names, out) ==
    IF names = <<>> THEN out
    ELSE LET path == secure_join(f, root, Head(names)) IN
         IF path = ErrPath THEN Raised
         ELSE FlatFiles(f, rp, root, Tail(names),
                        IF validate_path(f, path, rp, FALSE)
                        THEN Append(out, Node(path, "file", 0)) ELSE out)

RECURSIVE FlatWalk(_, _, _, _, _, _)
\* the for loop of walk() over os.walk(root_path)
FlatWalk(f, r, rp, c, stack, out) ==
    IF out = Raised THEN Raised
    ELSE IF stack = <<>> THEN out
    ELSE LET root == Head(stack) IN
         IF ~IsDir(f, root) THEN FlatWalk(f, r, rp, c, Tail(stack), out)
         ELSE LET pd == Resolve(f, root)
                  dirs == Keep(c, WalkDirs(f, r, pd), TRUE)
                  files == Keep(c, WalkFiles(f, r, pd), FALSE)
                  next == [i \in 1..Len(Unlinked(f, pd, dirs)) |->
                              Append(root, Unlinked(f, pd, dirs)[i])]
              IN FlatWalk(f, r, rp, c, next \o Tail(stack),
                          FlatFiles(f, rp, root, files, out))

----------------------------------------------------------------------------
(* crawler.py: the operations of RepositoryCrawler *)

\* the value of ret: the operation called, the kind of outcome ("tree", "flat",
\* "true", "false", "raised", "none" for a constructor that returned) and the
\* tree or list
Ret(o, k, v) == [op |-> o, k |-> k, v |-> v]
NoRet == Ret("none", "none", <<>>)

\* the three list(...) copies of __init__ and update_config
CopyDirs(pc) == IF pc.ip = "missing" THEN <<>> ELSE ToList(pc.dirs)
CopyFiles(pc) == IF pc.ip = "missing" THEN <<>> ELSE ToList(pc.files)
CopyExts(pc) == ToList(pc.ee)

\* whether reading the three lists off the caller's dict raises: the dict is
\* None, 'ignore_patterns' holds something without .get, or list() raises
CopyRaises(pc) ==
    \/ pc.nc # "dict"
    \/ pc.ip = "other"
    \/ ErrList \in {CopyDirs(pc), CopyFiles(pc), CopyExts(pc)}

\* a copy that hands back the caller's own list when it is given a list
ListId_Same(pv) == IF pv.t = "list" THEN "caller" ELSE "new"

\* whose object list(x) returns: always a new list, also when x is a list
ListId(pv) == "new"

\* whose objects the configuration built from the caller's dict pc is made of:
\* the dicts are dict displays, the three lists are list(...) copies
CopyIds(pc) ==
    [dict |-> "new", dirs |-> ListId(pc.dirs), files |-> ListId(pc.files),
     exts |-> ListId(pc.ee)]

\* RepositoryCrawler.__init__: ok is FALSE when it raised
__init__(f, root, pc) ==
    LET rp == sanitize_path(f, root) IN
    IF rp = ErrPath \/ ~validate_path(f, rp, NoRoot, TRUE) \/ CopyRaises(pc)
    THEN [ok |-> FALSE, root_path |-> NoRoot, config |-> NoConfig]
    ELSE [ok |-> TRUE, root_path |-> rp,
          config |-> Config(CopyDirs(pc), CopyFiles(pc), CopyExts(pc))]

\* _invalidate_cache
_invalidate_cache == [cache |-> NoTree, cfg_hash |-> NoHash]

\* update_config that stores the new configuration and leaves the cache alone
update_config_NoInvalidate(c, tr, h, pc) ==
    IF \/ pc.nc # "dict"
       \/ pc.ip # "dict"
       \/ CopyRaises(pc)
       \/ ~AllStr(CopyDirs(pc) \o CopyFiles(pc) \o CopyExts(pc))
    THEN [config |-> c, cache |-> tr, cfg_hash |-> h, ret |-> FALSE]
    ELSE [config |-> Config(CopyDirs(pc), CopyFiles(pc), CopyExts(pc)),
          cache |-> tr, cfg_hash |-> h, ret |-> TRUE]

\* update_config that invalidates the cache before it validates new_config
update_config_EarlyInvalidate(c, tr, h, pc) ==
    IF \/ pc.nc # "dict"
       \/ pc.ip # "dict"
       \/ CopyRaises(pc)
       \/ ~AllStr(CopyDirs(pc) \o CopyFiles(pc) \o CopyExts(pc))
    THEN [config |-> c, cache |-> _invalidate_cache.cache,
          cfg_hash |-> _invalidate_cache.cfg_hash, ret |-> FALSE]
    ELSE [config |-> Config(CopyDirs(pc), CopyFiles(pc), CopyExts(pc)),
          cache |-> _invalidate_cache.cache, cfg_hash |-> _invalidate_cache.cfg_hash,
          ret |-> TRUE]

\* update_config(new_config) on a crawler with configuration c, cached tree tr
\* and cached fingerprint h
update_config(c, tr, h, pc) ==
    IF \/ pc.nc # "dict"
       \/ pc.ip # "dict"
       \/ CopyRaises(pc)
       \/ ~AllStr(CopyDirs(pc) \o CopyFiles(pc) \o CopyExts(pc))
    THEN [config |-> c, cache |-> tr, cfg_hash |-> h, ret |-> FALSE]
    ELSE [config |-> Config(CopyDirs(pc), CopyFiles(pc), CopyExts(pc)),
          cache |-> _invalidate_cache.cache, cfg_hash |-> _invalidate_cache.cfg_hash,
          ret |-> TRUE]

\* a cache test that serves the cache when the fingerprints differ
CacheValid_Inverted(tr, h, current_hash) == tr # NoTree /\ h # NoHash /\ h # current_hash

\* the test of get_file_tree that serves the call from the cache
CacheValid(tr, h, current_hash) == tr # NoTree /\ h # NoHash /\ h = current_hash

\* get_file_tree that stores the tree it built and leaves the cached
\* fingerprint as it was
get_file_tree_TreeOnly(f, r, rp, c, tr, h, t) ==
    LET current_hash == _get_config_hash(c, t) IN
    IF CacheValid(tr, h, current_hash)
    THEN [cache |-> tr, cfg_hash |-> h, ret |-> tr, walked |-> FALSE]
    ELSE IF ~validate_path(f, rp, NoRoot, TRUE)
    THEN [cache |-> tr, cfg_hash |-> h, ret |-> Raised, walked |-> FALSE]
    ELSE LET tree == TreeWalk(f, r, rp, c, <<rp>>, RootOnly(rp)) IN
         IF tree = Raised
         THEN [cache |-> tr, cfg_hash |-> h, ret |-> Raised, walked |-> TRUE]
         ELSE [cache |-> tree, cfg_hash |-> h, ret |-> tree, walked |-> TRUE]

\* get_file_tree that, when its walk raises, stores the tree as far as it was
\* surely built, the root node, under the fingerprint of the call
get_file_tree_KeepPartial(f, r, rp, c, tr, h, t) ==
    LET current_hash == _get_config_hash(c, t) IN
    IF CacheValid(tr, h, current_hash)
    THEN [cache |-> tr, cfg_hash |-> h, ret |-> tr, walked |-> FALSE]
    ELSE IF ~validate_path(f, rp, NoRoot, TRUE)
    THEN [cache |-> tr, cfg_hash |-> h, ret |-> Raised, walked |-> FALSE]
    ELSE LET tree == TreeWalk(f, r, rp, c, <<rp>>, RootOnly(rp)) IN
         IF tree = Raised
         THEN [cache |-> RootOnly(rp), cfg_hash |-> current_hash, ret |-> Raised,
               walked |-> TRUE]
         ELSE [cache |-> tree, cfg_hash |-> current_hash, ret |-> tree, walked |-> TRUE]

\* get_file_tree() at clock reading t
get_file_tree(f, r, rp, c, tr, h, t) ==
    LET current_hash == _get_config_hash(c, t) IN
    IF CacheValid(tr, h, current_hash)
    THEN [cache |-> tr, cfg_hash |-> h, ret |-> tr, walked |-> FALSE]
    ELSE IF ~validate_path(f, rp, NoRoot, TRUE)
    THEN [cache |-> tr, cfg_hash |-> h, ret |-> Raised, walked |-> FALSE]
    ELSE LET tree == TreeWalk(f, r, rp, c, <<rp>>, RootOnly(rp)) IN
         IF tree = Raised
         THEN [cache |-> tr, cfg_hash |-> h, ret |-> Raised, walked |-> TRUE]
         ELSE [cache |-> tree, cfg_hash |-> current_hash, ret |-> tree, walked |-> TRUE]

\* walk(): the paths of the (path, size) pairs, in order; Raised when it raised.
\* The size is os.path.getsize of a path validate_path found to exist.
\* The call is made on a crawler whose cache holds tr under fingerprint h, and
\* leaves both as they are.
walk_Cached(f, r, rp, c, tr, h) ==
    IF tr # NoTree
    THEN LET fl == SelectSeq(tr, LAMBDA n : n.type = "file") IN
         [cache |-> tr, cfg_hash |-> h,
          ret |-> [i \in 1..Len(fl) |-> Node(fl[i].path, "file", 0)]]
    ELSE [cache |-> tr, cfg_hash |-> h, ret |-> FlatWalk(f, r, rp, c, <<rp>>, <<>>)]

walk(f, r, rp, c, tr, h) ==
    [cache |-> tr, cfg_hash |-> h, ret |-> FlatWalk(f, r, rp, c, <<rp>>, <<>>)]

\* no get_file_tree call is under way
NoCall == [current_hash |-> NoHash, tree |-> NoTree, stack |-> <<>>]

\* no FileHandler has been constructed
NoHandler == [root_path |-> NoRoot, allow_writes |-> FALSE, made |-> FALSE]

----------------------------------------------------------------------------
(* file_handler.py: FileHandler *)

\* FileHandler(root_path, allow_writes): the root is kept when one is given,
\* and allow_writes is set to False whatever the argument is
FileHandler_init(root, allow_writes) ==
    [root_path |-> root, allow_writes |-> FALSE, made |-> TRUE]

\* the proper prefixes of path p and p itself, shortest first
Prefixes(p) == [i \in 1..Len(p) |-> SubSeq(p, 1, i)]

\* parent.mkdir(parents=True, exist_ok=True) of a resolved path: every
\* missing directory on the way is created; Raised when a component is a
\* file or lies outside the universe (the model's filesystem has no room for
\* it: OSError)
mkdir(f, parent) ==
    IF \E i \in 1..Len(parent) :
          \/ Entry(f, Prefixes(parent)[i]).k = "file"
          \/ Prefixes(parent)[i] \notin Universe
    THEN Raised
    ELSE [q \in Universe |-> IF IsPrefix(q, parent) /\ ~Exists(f, q) THEN Dir ELSE f[q]]

\* the write proper of write_file, once the parent directory passed
\* validation: the missing directories are created, the path is validated
\* again, and the file is opened for writing; every exception gives False
RealWrite(f, dt, h, path) ==
    LET parent == Front(path)
        f1 == IF Exists(f, parent) THEN f ELSE mkdir(f, parent)
    IN IF f1 = Raised THEN [fs |-> f, data |-> dt, ret |-> "false"]
       ELSE IF ~validate_path(f1, path, h.root_path, TRUE)
       THEN [fs |-> f1, data |-> dt, ret |-> "false"]
       ELSE IF \/ path \notin FilePaths
               \/ Entry(f1, parent).k # "dir"
               \/ Entry(f1, path).k = "dir"
            THEN [fs |-> f1, data |-> dt, ret |-> "false"]
            ELSE [fs |-> [f1 EXCEPT ![path] = File], data |-> [dt EXCEPT ![path] = "new"],
                  ret |-> "true"]

\* A write_file that writes whatever allow_writes says.
write_file_Eager(f, dt, h, file_path) ==
    LET path == sanitize_path(f, file_path) IN
    IF path = ErrPath THEN [fs |-> f, data |-> dt, ret |-> "false"]
    ELSE IF h.root_path # NoRoot /\ ~validate_path(f, Front(path), h.root_path, TRUE)
    THEN [fs |-> f, data |-> dt, ret |-> "false"]
    ELSE RealWrite(f, dt, h, path)

\* handler.write_file(file_path, content): the filesystem and the contents it
\* leaves and the value it returns
write_file(f, dt, h, file_path) ==
    LET path == sanitize_path(f, file_path) IN
    IF path = ErrPath THEN [fs |-> f, data |-> dt, ret |-> "false"]
    ELSE IF h.root_path # NoRoot /\ ~validate_path(f, Front(path), h.root_path, TRUE)
    THEN [fs |-> f, data |-> dt, ret |-> "false"]
    ELSE IF ~h.allow_writes THEN [fs |-> f, data |-> dt, ret |-> "true"]
    ELSE RealWrite(f, dt, h, path)

\* the value of read_file that stands for None
NoContent == "None"

\* A read_file that opens the file the path resolves to without validating it.
read_file_Unchecked(f, dt, h, file_path) ==
    LET path == sanitize_path(f, file_path) IN
    IF path = ErrPath \/ path \notin FilePaths THEN NoContent
    ELSE IF Entry(f, path).k # "file" THEN NoContent
    ELSE IF dt[path] = "bin" THEN NoContent
    ELSE dt[path]

\* handler.read_file(file_path): the content of the file, and None when the
\* path fails validation, when open raises (a directory), and when the bytes
\* are not valid UTF-8
read_file(f, dt, h, file_path) ==
    IF ~validate_path(f, file_path, h.root_path, FALSE) THEN NoContent
    ELSE LET path == sanitize_path(f, file_path) IN
         IF path = ErrPath \/ path \notin FilePaths THEN NoContent
         ELSE IF Entry(f, path).k # "file" THEN NoContent
         ELSE IF dt[path] = "bin" THEN NoContent
         ELSE dt[path]

----------------------------------------------------------------------------
(* sidebar.py: SidebarComponent *)

\* The sidebar's state, as far as stored rules go.  A 'saved_rules' dict is an
\* object: dict.copy() is shallow, so a copy of default_config holds the
\* default's own 'saved_rules' dict.
\*   default_rules  the keys of default_config['saved_rules']
\*   ref            which dict st.session_state.config['saved_rules'] is:
\*                  "default" (the default's), "own" (another one), "missing"
\*                  (the config has no such key)
\*   own_rules      the keys of that other dict
\*   loaded_rules   the keys of st.session_state.loaded_rules
\*   loaded_config  whether st.session_state.loaded_config is set
\*   disk           config/config.yaml: whether it exists, its saved_rules keys
Session(dr, ref, own, lr, lc, disk) ==
    [made |-> TRUE, default_rules |-> dr, ref |-> ref, own_rules |-> own,
     loaded_rules |-> lr, loaded_config |-> lc, disk |-> disk]

\* no sidebar has been constructed
NoSession == [made |-> FALSE]

NoFile == [exists |-> FALSE, rules |-> {}]
OnDisk(rules) == [exists |-> TRUE, rules |-> rules]

\* the keys of the 'saved_rules' of a config whose dict is ref
RulesOf(ref, own, dr) == IF ref = "default" THEN dr ELSE IF ref = "own" THEN own ELSE {}

\* the keys of st.session_state.config['saved_rules']
SavedRules(s) == RulesOf(s.ref, s.own_rules, s.default_rules)

\* save_config(config_data) for a config_data whose 'saved_rules' is the dict
\* ref: the file is written and the session config becomes config_data.copy()
save_config(s, ref, own) ==
    [s EXCEPT !.disk = OnDisk(RulesOf(ref, own, s.default_rules)),
              !.ref = ref,
              !.own_rules = IF ref = "own" THEN own ELSE {}]

\* SidebarComponent() in a new session, config/config.yaml being disk:
\* __init__ builds default_config with an empty 'saved_rules', and
\* initialize_state takes the config of the file, or else a copy of the
\* default, and merges its saved rules into loaded_rules
initialize_state(disk) ==
    IF disk.exists
    THEN Session({}, "own", disk.rules, disk.rules, FALSE, disk)
    ELSE Session({}, "default", {}, {}, FALSE, disk)

\* render(), a rule file named n uploaded: skipped when it is loaded already;
\* else it is put in loaded_rules, then in config['saved_rules'] (KeyError
\* when the config has none, caught by the except of the loop) and saved
render_upload_rule(s, n) ==
    IF n \in s.loaded_rules THEN s
    ELSE LET s1 == [s EXCEPT !.loaded_rules = @ \cup {n}] IN
         IF s.ref = "missing" THEN s1
         ELSE IF s.ref = "default"
         THEN save_config([s1 EXCEPT !.default_rules = @ \cup {n}], "default", {})
         ELSE save_config(s1, "own", s.own_rules \cup {n})

\* render(), the remove button of loaded rule n: it is deleted from
\* loaded_rules, then from config['saved_rules'] (KeyError when the config has
\* none, which ends the run) and the config is saved
render_remove_rule(s, n) ==
    LET s1 == [s EXCEPT !.loaded_rules = @ \ {n}] IN
    IF s.ref = "missing" THEN s1
    ELSE IF s.ref = "default"
    THEN save_config([s1 EXCEPT !.default_rules = @ \ {n}], "default", {})
    ELSE save_config(s1, "own", s.own_rules \ {n})

\* render(), a YAML file uploaded: load_config_file saves the parsed dict u as
\* the configuration, then loaded_config is set
load_config_file(s, u) ==
    [save_config(s, IF u.has THEN "own" ELSE "missing", u.rules) EXCEPT !.loaded_config = TRUE]

\* clear_state()
clear_state(s) ==
    save_config([s EXCEPT !.ref = "default", !.own_rules = {}, !.loaded_config = FALSE,
                          !.loaded_rules = {}],
                "default", {})

----------------------------------------------------------------------------
(* Inputs *)

\* the arguments of a validate_path call
Arg(p, root, allow) == [path |-> p, root |-> root, allow |-> allow]
NoArg == Arg(<<>>, NoRoot, FALSE)

\* the paths a caller validates: those of the universe and one below the link
PathArgs == Universe \cup {<<R, L, X>>}

\* the root a caller constructs the crawler over
RootArgs == {<<R>>}

EmptyCfg == PyConfig("dict", PyList(<<>>), PyList(<<>>), PyList(<<>>))

\* configurations a caller passes to the constructor: the empty one, one that
\* ignores directory d, the test fixture's shape (no excluded_extensions), one
\* with an int among the extensions, and None
CtorConfigs ==
    { EmptyCfg,
      PyConfig("dict", PyList(<<D>>), PyList(<<>>), PyList(<<>>)),
      PyConfig("dict", PyList(<<>>), PyList(<<>>), PyMissing),
      PyConfig("dict", PyList(<<>>), PyList(<<>>), PyList(<<NonStr>>)),
      PyNone }

\* new_config values a caller passes to update_config
UpdateConfigs ==
    { EmptyCfg,
      PyConfig("dict", PyList(<<D>>), PyList(<<>>), PyList(<<>>)),
      PyConfig("dict", PyList(<<>>), PyList(<<X>>), PyList(<<>>)),
      PyConfig("dict", PyStr(D), PyList(<<>>), PyList(<<>>)),
      PyConfig("dict", PyMissing, PyMissing, PyMissing),
      PyConfig("dict", PyList(<<NonStr>>), PyList(<<>>), PyList(<<>>)),
      PyConfig("dict", PyList(<<>>), PyList(<<>>), PyInt),
      PyConfig("missing", PyMissing, PyMissing, PyList(<<>>)),
      PyConfig("other", PyMissing, PyMissing, PyList(<<>>)),
      PyNone }

\* the path strings _is_ignored is asked about: names, and names below
\* directories whose own names match or contain the pattern text
IgnorePaths ==
    { <<"d">>, <<"b">>, <<"b", "d">>, <<"b", "/", "d">>, <<"d", "/", "b">>,
      <<"d", "/", "b", "d">>, <<"r", "/", "d", "/", "b">>, <<"r", "/", "b", "/", "d">>,
      <<"x", ".", "L">>, <<"d", "/", "x", ".", "L">>, <<"x", ".", "L", "/", "d">>,
      <<".", "L">>, <<"x", ".">> }

\* the configurations _is_ignored is asked under
IgnoreConfigs ==
    { Config(dirs, files, exts) :
        dirs \in {<<>>, <<D>>, << <<"?", "d">> >>, << <<"x", "*">>, D >>},
        files \in {<<>>, <<D>>, << <<"*", ".", "L">> >>},
        exts \in {<<>>, << <<".", "l">> >>, << <<".", "L">>, <<>> >>} }

\* patterns the fingerprint is computed of: plain ones, one that holds the
\* separator of the join and two that hold the separator of the fields
B == <<"b">>
BcD == <<"b", ",", "d">>
BfD == <<"b", "|", "f", "i", "l", "e", "s", ":", "d">>
Df == <<"d", "|", "f", "i", "l", "e", "s", ":">>

\* the pattern lists of the directories
HashLists ==
    { <<>>, <<B>>, <<D>>, <<BcD>>, <<BfD>>, <<B, D>>, <<D, B>>, <<B, B>>, <<D, BcD>>,
      <<BcD, D>>, <<B, D, X>>, <<X, D, B>>, <<D, X, B>>, <<X, B, D, B>>,
      <<B, D, B, X>> }

\* the configurations the fingerprint is computed of
HashConfigs ==
    { Config(dirs, files, exts) :
        dirs \in HashLists,
        files \in {<<>>, <<D>>, <<Df>>, <<X, D>>, <<D, X>>},
        exts \in {<<>>, << <<".", "l">>, <<".", "b">> >>, << <<".", "b">>, <<".", "l">> >>} }

\* two configurations whose fingerprints are compared
HashArg(c1, c2) == [c1 |-> c1, c2 |-> c2]

\* the longest list a caller's later appends make
MaxAppend == 2

\* what a caller keeps of a call that took its dict pc: the dict, and whose
\* objects the crawler's configuration is made of since
Kept(pc, ids) == [dict |-> pc, ids |-> ids]

\* none of the crawler's objects is the caller's
NoIds == [dict |-> "new", dirs |-> "new", files |-> "new", exts |-> "new"]

\* the arguments of an _is_ignored call
IgnoreArg(c, path, is_dir) == [c |-> c, path |-> path, is_dir |-> is_dir]

----------------------------------------------------------------------------
(* The state machine *)

Init ==
    /\ fs \in FsStates
    /\ rev \in BOOLEAN
    /\ crawler = "none"
    /\ root_path = NoRoot
    /\ config = NoConfig
    /\ cache = NoTree
    /\ cfg_hash = NoHash
    /\ arg = NoArg
    /\ ret = NoRet
    /\ walked = FALSE
    /\ call = NoCall
    /\ handler = NoHandler
    /\ data = AllText
    /\ session = NoSession

\* what the caller still holds of an outcome when the filesystem moves on: a
\* tree returned by get_file_tree is the cached object itself and lives on,
\* every other outcome has been read by then
Held(r) == IF r.k = "tree" THEN r ELSE NoRet

\* another process changes what one path holds
FsChange ==
    /\ \E p \in Universe :
          \E e \in Options(p) \ {fs[p]} :
             /\ Entry(fs, Front(p)).k = "dir"
             /\ fs' = Replace(fs, p, e)
    /\ ret' = Held(ret)
    /\ UNCHANGED <<rev, crawlerVars, arg, walked, otherVars>>

\* the OS yields directory entries in another order
FsReorder ==
    /\ rev' = ~rev
    /\ ret' = Held(ret)
    /\ UNCHANGED <<fs, crawlerVars, arg, walked, otherVars>>

\* RepositoryCrawler(root, pc), but for what the caller does with pc afterwards
ConstructCall(root, pc) ==
    /\ crawler = "none"
    /\ LET o == __init__(fs, root, pc) IN
          /\ crawler' = IF o.ok THEN "live" ELSE "none"
          /\ root_path' = o.root_path
          /\ config' = o.config
          /\ ret' = Ret("__init__", IF o.ok THEN "none" ELSE "raised", <<>>)
    /\ cache' = NoTree
    /\ cfg_hash' = NoHash
    /\ walked' = FALSE
    /\ UNCHANGED <<fs, rev, otherVars>>

\* RepositoryCrawler(root, pc) by a caller that lets go of pc
ConstructWith(root, pc) == ConstructCall(root, pc) /\ UNCHANGED arg

Construct == \E root \in RootArgs, pc \in CtorConfigs : ConstructWith(root, pc)

\* crawler.update_config(pc), but for what the caller does with pc afterwards
UpdateConfigCall(pc) ==
    /\ crawler = "live"
    /\ LET o == update_config(config, cache, cfg_hash, pc) IN
          /\ config' = o.config
          /\ cache' = o.cache
          /\ cfg_hash' = o.cfg_hash
          /\ ret' = Ret("update_config", IF o.ret THEN "true" ELSE "false", <<>>)
    /\ walked' = FALSE
    /\ UNCHANGED <<fs, rev, crawler, root_path, otherVars>>

\* crawler.update_config(pc) by a caller that lets go of pc
UpdateConfigWith(pc) == UpdateConfigCall(pc) /\ UNCHANGED arg

UpdateConfig == \E pc \in UpdateConfigs : UpdateConfigWith(pc)

\* crawler.get_file_tree(); only a configuration whose fingerprint cannot be
\* computed makes the call read the clock
GetFileTree ==
    /\ crawler = "live"
    /\ \E t \in IF HashFails(config) THEN Readings(cfg_hash) ELSE {0} :
          LET o == get_file_tree(fs, rev, root_path, config, cache, cfg_hash, t) IN
          /\ cache' = o.cache
          /\ cfg_hash' = o.cfg_hash
          /\ ret' = IF o.ret = Raised THEN Ret("get_file_tree", "raised", <<>>)
                     ELSE Ret("get_file_tree", "tree", o.ret)
          /\ walked' = o.walked
    /\ UNCHANGED <<fs, rev, crawler, root_path, config, arg, otherVars>>

\* crawler.walk()
Walk ==
    /\ crawler = "live"
    /\ LET o == walk(fs, rev, root_path, config, cache, cfg_hash) IN
          /\ cache' = o.cache
          /\ cfg_hash' = o.cfg_hash
          /\ ret' = IF o.ret = Raised THEN Ret("walk", "raised", <<>>)
                     ELSE Ret("walk", "flat", o.ret)
    /\ walked' = FALSE
    /\ UNCHANGED <<fs, rev, crawler, root_path, config, arg, otherVars>>

Next == FsChange \/ FsReorder \/ Construct \/ UpdateConfig \/ GetFileTree \/ Walk

Spec == Init /\ [][Next]_vars

\* the specification of a crawler over a filesystem that no longer changes
\* once the crawler is constructed
StaticFsChange == crawler = "none" /\ FsChange

StaticFsReorder == crawler = "none" /\ FsReorder

NextStatic ==
    StaticFsChange \/ StaticFsReorder \/ Construct \/ UpdateConfig \/ GetFileTree \/ Walk

SpecStatic == Init /\ [][NextStatic]_vars

\* validate_path(p, root, allow_nonexistent) called on a filesystem
ValidatePath ==
    /\ \E p \in PathArgs, root \in {NoRoot, <<R>>}, allow \in BOOLEAN :
          /\ arg' = Arg(p, root, allow)
          /\ ret' = Ret("validate_path",
                        IF validate_path(fs, p, root, allow) THEN "true" ELSE "false", <<>>)
    /\ UNCHANGED <<fs, rev, crawlerVars, walked, otherVars>>

NextPath == ValidatePath

\* the specification of validate_path as a function of the filesystem and its arguments
SpecPath == Init /\ [][NextPath]_vars

\* a filesystem with a file in the root and one in a subdirectory
PlainFs == MkFs(Dir, Dir, File, Absent, File)

\* the initial state of the specifications of the pure functions
InitPure == Init /\ fs = PlainFs /\ rev = FALSE

\* crawler._is_ignored(path, is_dir) of a crawler with configuration c
IsIgnored ==
    /\ \E c \in IgnoreConfigs, path \in IgnorePaths, is_dir \in BOOLEAN :
          /\ arg' = IgnoreArg(c, path, is_dir)
          /\ ret' = Ret("_is_ignored",
                        IF _is_ignored(c, path, is_dir) THEN "true" ELSE "false", <<>>)
    /\ UNCHANGED <<fs, rev, crawlerVars, walked, otherVars>>

NextIgnore == IsIgnored

\* the specification of _is_ignored as a function of the configuration and its arguments
SpecIgnore == InitPure /\ [][NextIgnore]_vars

\* _get_config_hash() of two crawlers, with configurations c1 and c2, once
Fingerprints ==
    /\ ret = NoRet
    /\ \E c1 \in HashConfigs, c2 \in HashConfigs :
          /\ arg' = HashArg(c1, c2)
          /\ ret' = Ret("_get_config_hash", "hashes",
                        <<_get_config_hash(c1, 0), _get_config_hash(c2, 0)>>)
    /\ UNCHANGED <<fs, rev, crawlerVars, walked, otherVars>>

NextHash == Fingerprints

\* the specification of _get_config_hash as a function of the configuration
SpecHash == InitPure /\ [][NextHash]_vars

\* RepositoryCrawler(root, pc) by a caller that keeps pc
ConstructKept(root, pc) ==
    /\ ConstructCall(root, pc)
    /\ arg' = Kept(pc, IF crawler' = "live" THEN CopyIds(pc) ELSE NoIds)

\* crawler.update_config(pc) by a caller that keeps pc; an update that is
\* rejected leaves the crawler the configuration it had, of its own objects
UpdateConfigKept(pc) ==
    /\ UpdateConfigCall(pc)
    /\ arg' = Kept(pc, IF ret'.k = "true" THEN CopyIds(pc) ELSE NoIds)

\* the lists a caller's dict d holds, by the field of the configuration they were read into
CallerLists(d) ==
    {x \in {[at |-> "dirs", pv |-> d.dirs], [at |-> "files", pv |-> d.files],
             [at |-> "exts", pv |-> d.ee]} : x.pv.t = "list"}

\* configuration c after the list object its field at was made of changed to v
Mutated(c, ids, at, v) ==
    IF ids[at] # "caller" THEN c
    ELSE [c EXCEPT ![at] = v]

\* the dict d after the caller changed its list at field at to v
DictWith(d, at, v) ==
    CASE at = "dirs" -> [d EXCEPT !.dirs = PyList(v)]
      [] at = "files" -> [d EXCEPT !.files = PyList(v)]
      [] at = "exts" -> [d EXCEPT !.ee = PyList(v)]

\* the caller appends a pattern to one of the lists of the dict it passed in, or clears it
CallerMutates ==
    /\ crawler = "live"
    /\ \E x \in CallerLists(arg.dict) :
          \E v \in IF Len(x.pv.v) < MaxAppend THEN {<<>>, Append(x.pv.v, X)} ELSE {<<>>} :
             /\ v # x.pv.v
             /\ arg' = Kept(DictWith(arg.dict, x.at, v), arg.ids)
             /\ config' = Mutated(config, arg.ids, x.at, v)
    /\ ret' = Ret("caller_mutates", "none", <<>>)
    /\ walked' = FALSE
    /\ UNCHANGED <<fs, rev, crawler, root_path, cache, cfg_hash, otherVars>>

NextAlias ==
    \/ \E root \in RootArgs, pc \in CtorConfigs : ConstructKept(root, pc)
    \/ \E pc \in UpdateConfigs : UpdateConfigKept(pc)
    \/ CallerMutates
    \/ GetFileTree
    \/ Walk

\* the initial state: a fixed filesystem, no crawler, a caller that has passed no dict yet
InitAlias ==
    /\ fs = PlainFs /\ rev = FALSE
    /\ crawler = "none" /\ root_path = NoRoot /\ config = NoConfig
    /\ cache = NoTree /\ cfg_hash = NoHash
    /\ arg = Kept(PyNone, NoIds) /\ ret = NoRet /\ walked = FALSE
    /\ call = NoCall /\ handler = NoHandler /\ data = AllText /\ session = NoSession

\* the specification of a crawler whose caller keeps the dicts it passes in
\* and changes them afterwards
SpecAlias == InitAlias /\ [][NextAlias]_vars

\* get_file_tree() run by a second thread, up to the start of its walk: the
\* fingerprint, the cache test, the validation of the root, the root node
TreeBegin ==
    /\ crawler = "live"
    /\ call = NoCall
    /\ \E t \in IF HashFails(config) THEN Readings(cfg_hash) ELSE {0} :
          LET current_hash == _get_config_hash(config, t) IN
          IF CacheValid(cache, cfg_hash, current_hash)
          THEN /\ ret' = Ret("get_file_tree", "tree", cache)
               /\ walked' = FALSE
               /\ call' = NoCall
          ELSE IF ~validate_path(fs, root_path, NoRoot, TRUE)
          THEN /\ ret' = Ret("get_file_tree", "raised", <<>>)
               /\ walked' = FALSE
               /\ call' = NoCall
          ELSE /\ call' = [current_hash |-> current_hash, tree |-> RootOnly(root_path),
                           stack |-> <<root_path>>]
               /\ UNCHANGED <<ret, walked>>
    /\ UNCHANGED <<fs, rev, crawlerVars, arg, handler, data, session>>

\* the thread processes the next directory of its walk, under the
\* configuration the crawler has at that moment
TreeVisit ==
    /\ call # NoCall
    /\ call.stack # <<>>
    /\ LET s == TreeStep(fs, rev, root_path, config, call.stack, call.tree) IN
          IF s.tree = Raised
          THEN /\ call' = NoCall
               /\ ret' = Ret("get_file_tree", "raised", <<>>)
               /\ walked' = TRUE
          ELSE /\ call' = [call EXCEPT !.stack = s.stack, !.tree = s.tree]
               /\ UNCHANGED <<ret, walked>>
    /\ UNCHANGED <<fs, rev, crawlerVars, arg, handler, data, session>>

\* the walk is over: the thread stores the tree under the fingerprint it
\* computed at the start, and returns it
TreeEnd ==
    /\ call # NoCall
    /\ call.stack = <<>>
    /\ cache' = call.tree
    /\ cfg_hash' = call.current_hash
    /\ ret' = Ret("get_file_tree", "tree", call.tree)
    /\ walked' = TRUE
    /\ call' = NoCall
    /\ UNCHANGED <<fs, rev, crawler, root_path, config, arg, handler, data, session>>

NextThreads == Construct \/ UpdateConfig \/ TreeBegin \/ TreeVisit \/ TreeEnd

\* the specification of a crawler over a fixed filesystem on which one thread
\* calls get_file_tree while another calls update_config
SpecThreads == InitPure /\ [][NextThreads]_vars

\* the roots a caller gives a FileHandler: none, or r
HandlerRoots == {NoRoot, <<R>>}

\* FileHandler(root, allow_writes)
NewHandler ==
    /\ \E root \in HandlerRoots, allow_writes \in BOOLEAN :
          /\ handler' = FileHandler_init(root, allow_writes)
          /\ arg' = Arg(<<>>, root, allow_writes)
    /\ ret' = Ret("FileHandler", "none", <<>>)
    /\ UNCHANGED <<fs, rev, crawlerVars, walked, call, data, session>>

\* handler.write_file(p, content)
WriteFile ==
    /\ handler.made
    /\ \E p \in PathArgs :
          LET o == write_file(fs, data, handler, p) IN
          /\ fs' = o.fs
          /\ data' = o.data
          /\ ret' = Ret("write_file", o.ret, <<>>)
          \* allow: the allow_writes the handler was constructed with
          /\ arg' = Arg(p, handler.root_path, arg.allow)
    /\ UNCHANGED <<rev, crawlerVars, walked, call, handler, session>>

\* handler.read_file(p)
ReadFile ==
    /\ handler.made
    /\ \E p \in PathArgs :
          LET o == read_file(fs, data, handler, p) IN
          /\ ret' = IF o = NoContent THEN Ret("read_file", "none", <<>>)
                     ELSE Ret("read_file", "content", <<o>>)
          /\ arg' = Arg(p, handler.root_path, arg.allow)
    /\ UNCHANGED <<fs, rev, crawlerVars, walked, otherVars>>

\* another process rewrites the bytes of a file
DataChange ==
    /\ \E p \in FilePaths :
          /\ fs[p] = File
          /\ \E v \in {"text", "bin"} \ {data[p]} : data' = [data EXCEPT ![p] = v]
    /\ ret' = Held(ret)
    /\ UNCHANGED <<fs, rev, crawlerVars, arg, walked, call, handler, session>>

NextFile == FsChange \/ DataChange \/ NewHandler \/ WriteFile \/ ReadFile

\* the specification of a FileHandler over a filesystem other processes change
SpecFile == Init /\ [][NextFile]_vars

\* the names of the rule files a user uploads
RuleNames == {"a", "b"}

\* what config/config.yaml holds when the app starts
DiskStates == {NoFile, OnDisk({}), OnDisk({"a"})}

\* the YAML configurations a user uploads: without 'saved_rules', with an
\* empty one, with one rule
UploadedConfigs ==
    {[has |-> FALSE, rules |-> {}], [has |-> TRUE, rules |-> {}], [has |-> TRUE, rules |-> {"a"}]}

sidebarFrame == <<fs, rev, crawlerVars, arg, walked, call, handler, data>>

\* SidebarComponent(), once per process
NewSidebar ==
    /\ ~session.made
    /\ \E disk \in DiskStates : session' = initialize_state(disk)
    /\ ret' = Ret("SidebarComponent", "none", <<>>)
    /\ UNCHANGED sidebarFrame

\* a rule file is uploaded
UploadRule ==
    /\ session.made
    /\ \E n \in RuleNames : session' = render_upload_rule(session, n)
    /\ ret' = Ret("upload_rule", "none", <<>>)
    /\ UNCHANGED sidebarFrame

\* the remove button of a loaded rule is pressed
RemoveRule ==
    /\ session.made
    /\ \E n \in session.loaded_rules : session' = render_remove_rule(session, n)
    /\ ret' = Ret("remove_rule", "none", <<>>)
    /\ UNCHANGED sidebarFrame

\* a YAML configuration file is uploaded
UploadConfig ==
    /\ session.made
    /\ \E u \in UploadedConfigs : session' = load_config_file(session, u)
    /\ ret' = Ret("load_config_file", "true", <<>>)
    /\ UNCHANGED sidebarFrame

\* the Clear All button, shown while loaded_config is set
ClearState ==
    /\ session.made
    /\ session.loaded_config
    /\ session' = clear_state(session)
    /\ ret' = Ret("clear_state", "none", <<>>)
    /\ UNCHANGED sidebarFrame

NextSidebar == NewSidebar \/ UploadRule \/ RemoveRule \/ UploadConfig \/ ClearState

\* the specification of the sidebar of one session
SpecSidebar == InitPure /\ [][NextSidebar]_vars

----------------------------------------------------------------------------
(* Properties *)

\* the tree a walk of the filesystem as it is now gives under the current configuration
FreshTree == TreeWalk(fs, rev, root_path, config, <<root_path>>, RootOnly(root_path))

\* the last call was a get_file_tree that returned a tree
ReturnedTree == ret.op = "get_file_tree" /\ ret.k = "tree"

\* the paths of the nodes of a tree or of the entries of a flat list
PathsOf(t) == {t[i].path : i \in 1..Len(t)}

\* C1 as claimed: of two consecutive get_file_tree() calls with no
\* configuration change between them, the second returns the tree the first
\* returned and does not walk, for any crawler, whatever happened to the
\* filesystem in between.
C1_AnyCrawler ==
    [][(ReturnedTree /\ GetFileTree) => (ret' = ret /\ ~walked')]_vars

\* C1 amended: the same, for a crawler whose configured patterns are all
\* strings, so that the fingerprint of its configuration can be computed.
C1_Idempotent ==
    [][(ReturnedTree /\ ~HashFails(config) /\ GetFileTree) => (ret' = ret /\ ~walked')]_vars

\* a second call was served from the cache although a walk of the filesystem
\* as it is now would give another tree
C1_Witness ==
    /\ ReturnedTree
    /\ ~walked
    /\ ~HashFails(config)
    /\ ret.v = cache
    /\ ret.v # FreshTree

\* C2: over a filesystem that does not change, every tree get_file_tree
\* returns is the tree of the crawler's current configuration, and a
\* successful update_config leaves the cache empty.
C2_CurrentConfig ==
    /\ ReturnedTree => ret.v = FreshTree
    /\ (ret.op = "update_config" /\ ret.k = "true") => (cache = NoTree /\ cfg_hash = NoHash)

\* a tree returned under a configuration only update_config can have set, and
\* which differs from the tree of the empty configuration
C2_Witness ==
    /\ ReturnedTree
    /\ walked
    /\ config = Config(<<>>, <<X>>, <<>>)
    /\ ret.v # TreeWalk(fs, rev, root_path, NoConfig, <<root_path>>, RootOnly(root_path))

\* C3: an update_config that returns False leaves the configuration, the
\* cached tree and the cached fingerprint as they were.
C3_RejectKeepsState ==
    [][(ret'.k = "false" /\ UpdateConfig) => UNCHANGED <<config, cache, cfg_hash>>]_vars

\* a malformed update was rejected by a crawler that holds a cached tree
C3_Witness ==
    /\ ret.op = "update_config"
    /\ ret.k = "false"
    /\ cache # NoTree
    /\ config # NoConfig

\* what C4 calls well-formed: a dict whose 'ignore_patterns' is a dict holding
\* lists of strings under 'directories' and 'files', with a list of strings
\* under 'excluded_extensions'
ListOfStr(pv) == pv.t = "list" /\ AllStr(pv.v)

WellShaped(pc) ==
    /\ pc.nc = "dict"
    /\ pc.ip = "dict"
    /\ ListOfStr(pc.dirs)
    /\ ListOfStr(pc.files)
    /\ ListOfStr(pc.ee)

\* C4 as claimed: update_config returns True only for a well-formed new_config.
C4_OnlyWellShaped ==
    [][\A pc \in UpdateConfigs :
          (UpdateConfigWith(pc) /\ ret'.k = "true") => WellShaped(pc)]_vars

\* the directories under the root whose basename matches an ignore-directory pattern
IgnoredDirs ==
    {p \in Universe : /\ IsPrefix(root_path, p)
                      /\ p # root_path
                      /\ fs[p].k = "dir"
                      /\ _is_ignored(config, Last(p), TRUE)}

NoneUnderIgnored(t) ==
    \A p \in PathsOf(t) : \A d \in IgnoredDirs : ~IsPrefix(d, p)

\* C5 as claimed: neither an ignored directory nor a path under it is in the
\* tree get_file_tree builds of the filesystem or in the list walk() returns.
C5_Pruned ==
    /\ (ReturnedTree /\ walked /\ ret.v = FreshTree) => NoneUnderIgnored(ret.v)
    /\ (ret.op = "walk" /\ ret.k = "flat") => NoneUnderIgnored(ret.v)

\* C6 as claimed: the root node's path is the crawler's root and every node's
\* path lies inside it.
C6_InsideRoot ==
    ReturnedTree =>
        /\ ret.v[1].path = root_path
        /\ \A p \in PathsOf(ret.v) : IsPrefix(ret.v[1].path, p)

\* whether path p is a symlink or passes through a symlinked ancestor
ThroughSymlink(f, p) ==
    \E i \in 1..Len(p) :
        LET parent == Resolve(f, SubSeq(p, 1, i - 1)) IN
        parent # ErrPath /\ IsLink(f, Append(parent, p[i]))

\* C7 as claimed: validate_path(p, root), called with its default
\* allow_nonexistent, is False for every p that is a symlink or passes through one.
C7_SymlinkRejected ==
    (/\ ret.op = "validate_path"
     /\ arg.root # NoRoot
     /\ ~arg.allow
     /\ ThroughSymlink(fs, arg.path)) => ret.k = "false"

\* C8 as claimed: constructing a crawler over a root that is a symlink raises.
C8_SymlinkRootRaises ==
    \A root \in RootArgs :
        (ret.op = "__init__" /\ IsLink(fs, root)) => ret.k = "raised"

\* the call just made was not served from the cache
NotFromCache == ~(ret.k = "tree" /\ ~walked)

\* C9 as claimed: once the root has been replaced by a symlink, a
\* get_file_tree that is not served from the cache raises and stores nothing.
C9_ReplacedRootRaises ==
    [][(GetFileTree /\ IsLink(fs, root_path) /\ NotFromCache')
          => (ret'.k = "raised" /\ UNCHANGED <<cache, cfg_hash>>)]_vars

\* the root does not exist or is a directory that holds nothing
AbsentOrEmpty(f, rp) ==
    \/ Entry(f, rp) = Absent
    \/ (Entry(f, rp) = Dir /\ NamesIn(f, rp) = {})

\* C10: constructing a crawler over a path that does not exist, with a config
\* dict the constructor can read, does not raise; and a get_file_tree that
\* walks a root that does not exist, or an empty one, returns the root
\* directory node alone.
C10_NonexistentRoot ==
    [][/\ \A root \in RootArgs, pc \in CtorConfigs :
             (Entry(fs, root) = Absent /\ ~CopyRaises(pc) /\ ConstructWith(root, pc))
                 => (crawler' = "live" /\ root_path' = root)
       /\ (AbsentOrEmpty(fs, root_path) /\ NotFromCache' /\ GetFileTree)
             => ret' = Ret("get_file_tree", "tree", RootOnly(root_path))]_vars

\* get_file_tree walked a root that does not exist and returned the root node alone
C10_Witness ==
    /\ ReturnedTree
    /\ walked
    /\ Entry(fs, root_path) = Absent
    /\ ret.v = RootOnly(root_path)

\* no path of the universe holds a symlink
SymlinkFree(f) == \A p \in Universe : f[p].k # "link"

\* the entries strictly under rp that are not ignored and have no ignored
\* directory between rp and themselves
Retained(f, rp, c) ==
    {p \in Universe :
        /\ IsPrefix(rp, p) /\ p # rp
        /\ f[p] # Absent
        /\ ~_is_ignored(c, Last(p), f[p].k = "dir")
        /\ \A q \in Universe :
              (IsPrefix(rp, q) /\ q # rp /\ IsPrefix(q, p) /\ q # p)
                  => ~_is_ignored(c, Last(q), TRUE)}

\* tree t is the directory structure of f under rp: the root node, one node for
\* every retained entry and no other, each the child of the node of its parent
\* directory, of the type of the entry
Mirrors(t, f, rp, c) ==
    /\ t[1] = Node(rp, "directory", 0)
    /\ PathsOf(t) = {rp} \cup Retained(f, rp, c)
    /\ Len(t) = Cardinality(PathsOf(t))
    /\ \A i \in 2..Len(t) :
          /\ t[i].parent \in 1..Len(t)
          /\ t[t[i].parent].path = Front(t[i].path)
          /\ t[t[i].parent].type = "directory"
          /\ t[i].type = IF f[t[i].path].k = "dir" THEN "directory" ELSE "file"

\* C11: over a filesystem without symlinks, the tree a walking get_file_tree
\* returns has exactly one node for every entry under the root that is not
\* ignored and has no ignored ancestor, each node is a child of the node of its
\* parent directory, directories have type 'directory' and files type 'file'.
C11_Mirrors ==
    [][(walked' /\ ret'.k = "tree" /\ SymlinkFree(fs) /\ GetFileTree)
          => Mirrors(ret'.v, fs, root_path, config)]_vars

\* a walk returned a nested tree: a file in a subdirectory, below the node of
\* that subdirectory, next to a file of the root
C11_Witness ==
    /\ ReturnedTree
    /\ walked
    /\ SymlinkFree(fs)
    /\ ret.v = FreshTree
    /\ {<<R, D, X>>, <<R, X>>} \subseteq PathsOf(ret.v)
    /\ \E i \in 1..Len(ret.v) :
          ret.v[i].path = <<R, D, X>> /\ ret.v[ret.v[i].parent].path = <<R, D>>

\* what C12 says of a result t made of filesystem f: no file whose name is
\* ignored is in it, and every file under the root that is retained is
FilesFiltered(t, f, rp, c) ==
    /\ \A p \in Universe :
          (f[p].k = "file" /\ _is_ignored(c, Last(p), FALSE)) => p \notin PathsOf(t)
    /\ \A p \in Retained(f, rp, c) : f[p].k = "file" => p \in PathsOf(t)

\* C12 as claimed: a file whose basename matches an ignore-file glob, or whose
\* lower-cased extension is excluded, is in neither the tree of a walking
\* get_file_tree nor the list of walk(); a file that matches neither and is
\* not under an ignored directory is in both.
C12_FilesFiltered ==
    [][/\ (GetFileTree /\ walked' /\ ret'.k = "tree")
             => FilesFiltered(ret'.v, fs, root_path, config)
       /\ (Walk /\ ret'.k = "flat")
             => FilesFiltered(ret'.v, fs, root_path, config)]_vars

\* the final component of a path string
Basename(s) ==
    LET k == CHOOSE i \in 0..Len(s) :
                 /\ i = 0 \/ s[i] = "/"
                 /\ \A j \in (i + 1)..Len(s) : s[j] # "/"
    IN SubSeq(s, k + 1, Len(s))

\* some pattern of the list matches the name
SomeGlob(name, patterns) == \E i \in 1..Len(patterns) : fnmatch(name, patterns[i])

\* C13: a directory is ignored iff its own basename matches an
\* ignore-directory glob, a file iff its own basename matches an ignore-file
\* glob or has an excluded extension, and two paths with the same final
\* component get the same answer, whatever their other components are.
C13_BasenameOnly ==
    ret.op = "_is_ignored" =>
        /\ arg.is_dir =>
              ((ret.k = "true") <=> SomeGlob(Basename(arg.path), arg.c.dirs))
        /\ ~arg.is_dir =>
              ((ret.k = "true") <=>
                  \/ SomeGlob(Basename(arg.path), arg.c.files)
                  \/ \E i \in 1..Len(arg.c.exts) :
                        arg.c.exts[i] = Suffix(Basename(arg.path)))
        /\ \A q \in IgnorePaths :
              Basename(q) = Basename(arg.path)
                  => (_is_ignored(arg.c, q, arg.is_dir) <=> (ret.k = "true"))

\* a directory named bd below a directory named d is not ignored under the
\* pattern d, which its parent matches and its own name contains
C13_Witness ==
    /\ ret.op = "_is_ignored"
    /\ ret.k = "false"
    /\ arg.is_dir
    /\ arg.path = <<"d", "/", "b", "d">>
    /\ arg.c.dirs = <<D>>

\* how often e occurs in list s
Count(s, e) == Cardinality({i \in 1..Len(s) : s[i] = e})

\* list s holds the patterns of list t, in whatever order
Permutation(s, t) ==
    Len(s) = Len(t) /\ \A i \in 1..Len(s) : Count(s, s[i]) = Count(t, s[i])

SamePatterns(c1, c2) ==
    /\ Permutation(c1.dirs, c2.dirs)
    /\ Permutation(c1.files, c2.files)
    /\ Permutation(c1.exts, c2.exts)

PatternSet(s) == {s[i] : i \in 1..Len(s)}

DifferentPatternSets(c1, c2) ==
    \/ PatternSet(c1.dirs) # PatternSet(c2.dirs)
    \/ PatternSet(c1.files) # PatternSet(c2.files)
    \/ PatternSet(c1.exts) # PatternSet(c2.exts)

\* C15 as claimed: two configurations with different pattern sets give
\* different strings to hash, also when patterns hold ',' or '|'.
C15_Injective ==
    (ret.op = "_get_config_hash" /\ DifferentPatternSets(arg.c1, arg.c2))
        => ret.v[1].v # ret.v[2].v

\* the configurations a crawler can be given
GivenConfigs ==
    {Config(CopyDirs(pc), CopyFiles(pc), CopyExts(pc)) :
        pc \in {q \in CtorConfigs \cup UpdateConfigs : ~CopyRaises(q)}}

\* h is a fingerprint of configuration c
FingerprintOf(c, h) == IF HashFails(c) THEN h.src = "time" ELSE h = Hash(ConfigStr(c))

\* tree t is what a walk filtered by the one configuration c gives
FilteredBy(t, c) == t = TreeWalk(fs, rev, root_path, c, <<root_path>>, RootOnly(root_path))

\* C16 as claimed: with one thread in get_file_tree and another in
\* update_config, every tree returned or cached was filtered by a single
\* configuration throughout, and a cached tree lies under the fingerprint of
\* that configuration.
C16_SingleConfig ==
    /\ cache # NoTree =>
          \E c \in GivenConfigs : FilteredBy(cache, c) /\ FingerprintOf(c, cfg_hash)
    /\ ReturnedTree => \E c \in GivenConfigs : FilteredBy(ret.v, c)

C18_EntryFailureSkipped ==
    [][/\ (GetFileTree /\ validate_path(fs, root_path, NoRoot, TRUE)) => ret'.k = "tree"
       /\ Walk => ret'.k = "flat"]_vars

\* the paths of the file nodes of a cached tree
CachedFiles(tr) == {tr[i].path : i \in {j \in 1..Len(tr) : tr[j].type = "file"}}

\* C19: walk() leaves the cached tree and the cached fingerprint as they were,
\* and what it returns (or its raising) is what the traversal of the filesystem
\* at call time gives, every returned path being a file that exists then,
\* whether or not a tree is cached.
C19_CacheUntouched ==
    [][(ret'.op = "walk" /\ Walk) =>
               /\ UNCHANGED <<cache, cfg_hash>>
               /\ LET o == FlatWalk(fs, rev, root_path, config, <<root_path>>, <<>>) IN
                     IF o = Raised THEN ret'.k = "raised"
                     ELSE /\ ret'.k = "flat"
                          /\ ret'.v = o
                          /\ \A i \in 1..Len(o) : Exists(fs, Resolve(fs, o[i].path))]_vars

\* a walk() returned files a cached tree does not hold, or not files it holds
C19_Witness ==
    /\ ret.op = "walk"
    /\ ret.k = "flat"
    /\ cache # NoTree
    /\ CachedFiles(cache) # PathsOf(ret.v)
    /\ ret.v # <<>>

\* the directory write_file validates for path p: the parent of the resolved
\* path, and the parent of the path as given when it cannot be resolved
ParentOf(f, p) == IF Resolve(f, p) = ErrPath THEN Front(p) ELSE Front(Resolve(f, p))

\* the parent directory of path p fails validation against the handler's root
ParentFails(f, h, p) ==
    h.root_path # NoRoot /\ ~validate_path(f, ParentOf(f, p), h.root_path, TRUE)

\* C20 as claimed: a write_file of a handler whose writes are disabled leaves
\* the filesystem as it is, and returns False when the parent directory fails
\* validation against the configured root and True otherwise.
C20_DryRun ==
    [][(ret'.op = "write_file" /\ WriteFile /\ ~handler.allow_writes) =>
          /\ fs' = fs
          /\ data' = data
          /\ ret'.k = IF ParentFails(fs, handler, arg'.path) THEN "false" ELSE "true"]_vars

\* C20: a write_file of a handler whose writes are disabled leaves the
\* filesystem as it is; it returns False when the path cannot be resolved or
\* when the parent directory of the resolved path fails validation against
\* the configured root, and True otherwise.
C20_DryRunResolved ==
    [][(ret'.op = "write_file" /\ WriteFile /\ ~handler.allow_writes) =>
          /\ fs' = fs
          /\ data' = data
          /\ ret'.k = IF \/ Resolve(fs, arg'.path) = ErrPath
                         \/ ParentFails(fs, handler, arg'.path)
                      THEN "false" ELSE "true"]_vars

\* a write_file under a root returned True for a file that does not exist in
\* a directory that does not exist, and neither exists afterwards
C20_Witness ==
    /\ ret.op = "write_file"
    /\ ret.k = "true"
    /\ arg.root = <<R>>
    /\ ~arg.allow
    /\ Resolve(fs, arg.path) # ErrPath
    /\ ~Exists(fs, Resolve(fs, arg.path))
    /\ ~Exists(fs, Front(Resolve(fs, arg.path)))

\* path p can be written under handler h: it resolves to a path that may hold
\* a file and is not a directory, its parent passes validation against the
\* root, no directory on the way is a file, and the path itself passes
\* validation
Writable(f, h, p) ==
    LET path == Resolve(f, p) IN
    /\ path \in FilePaths
    /\ Entry(f, path).k # "dir"
    /\ \A i \in 1..(Len(path) - 1) : Entry(f, SubSeq(path, 1, i)).k \in {"dir", "absent"}
    /\ ~ParentFails(f, h, p)
    /\ validate_path(f, p, h.root_path, TRUE)

\* C21 as claimed: a write_file of a handler constructed with
\* allow_writes=True, for a path that passes validation, returns True and
\* leaves the file in place with the content it was given, in its directory,
\* and a read_file of the path that follows returns that content.
C21_WriteEnabled ==
    [][(ret'.op = "write_file" /\ arg.allow /\ WriteFile /\ Writable(fs, handler, arg'.path)) =>
          /\ ret'.k = "true"
          /\ Entry(fs', Resolve(fs, arg'.path)) = File
          /\ Entry(fs', Front(Resolve(fs, arg'.path))).k = "dir"
          /\ read_file(fs', data', handler', arg'.path) = "new"]_vars

\* path p resolves to a path outside the directory the handler's root resolves to
OutsideRoot(f, h, p) ==
    LET path == Resolve(f, p)
        rt == Resolve(f, h.root_path)
    IN path # ErrPath /\ (rt = ErrPath \/ ~IsPrefix(rt, path))

\* C22: a read_file of a handler with a root never returns the content of a
\* file whose resolved path lies outside the directory the root resolves to,
\* whether the path names the file or reaches it through a symlink under the
\* root: it returns None.
C22_ReadConfined ==
    [][(ret'.op = "read_file" /\ handler.root_path # NoRoot /\ ReadFile
          /\ OutsideRoot(fs, handler, arg'.path)) => ret'.k = "none"]_vars

\* a read_file under root r was refused the text of a file outside r that a
\* symlink under r points to
C22_Witness ==
    /\ ret.op = "read_file"
    /\ ret.k = "none"
    /\ arg.root = <<R>>
    /\ fs[<<R>>] = Dir
    /\ arg.path = <<R, L>>
    /\ fs[<<R, L>>] = Link(<<O, G>>)
    /\ data[<<O, G>>] = "text"

\* path p passes the validation of read_file's handler or would, were its file there
Admitted(f, h, p) == validate_path(f, p, h.root_path, TRUE)

\* path p names a file that is not there
Missing(f, h, p) == Admitted(f, h, p) /\ Entry(f, Resolve(f, p)).k = "absent"

\* path p names a file whose bytes are not valid UTF-8
Undecodable(f, dt, h, p) ==
    /\ Admitted(f, h, p)
    /\ Resolve(f, p) \in FilePaths
    /\ Entry(f, Resolve(f, p)) = File
    /\ dt[Resolve(f, p)] = "bin"

\* C23 as claimed: the value read_file returns for a file whose bytes are not
\* valid UTF-8 differs from the value it has just returned for a missing file.
C23_DecodeDistinct ==
    [][(/\ ret.op = "read_file"
        /\ Missing(fs, handler, arg.path)
        /\ ret'.op = "read_file"
        /\ Undecodable(fs, data, handler, arg'.path)
        /\ ReadFile) => <<ret'.k, ret'.v>> # <<ret.k, ret.v>>]_vars

\* C24: for a configuration whose fingerprint cannot be computed (a pattern
\* that is not a string), the fingerprint is a value no cached fingerprint
\* equals, and get_file_tree is never served from the cache: it raises only
\* when the root fails validation or the walk raises, and otherwise walks
\* and returns the tree of the filesystem as it is, stored under a fingerprint
\* other than the one that was cached.
C24_FallbackForcesWalk ==
    [][(ret'.op = "get_file_tree" /\ HashFails(config) /\ GetFileTree) =>
          /\ \A t \in Readings(cfg_hash) : _get_config_hash(config, t) # cfg_hash
          /\ LET fresh == TreeWalk(fs, rev, root_path, config, <<root_path>>,
                                   RootOnly(root_path))
             IN IF ~validate_path(fs, root_path, NoRoot, TRUE) \/ fresh = Raised
                THEN ret'.k = "raised"
                ELSE /\ ret'.k = "tree"
                     /\ walked'
                     /\ ret'.v = fresh
                     /\ cfg_hash' # cfg_hash]_vars

\* a crawler with a pattern that is not a string walked, returned a tree with
\* entries and stored it under a fingerprint made of a later clock reading
C24_Witness ==
    /\ ReturnedTree
    /\ walked
    /\ HashFails(config)
    /\ cfg_hash.src = "time"
    /\ LastReading(cfg_hash) > 1
    /\ ret.v # RootOnly(root_path)

\* the place of name n in listing s
Pos(s, n) == CHOOSE k \in 1..Len(s) : s[k] = n

\* in tree t of filesystem f the children of every node are in the order in
\* which the listing of the node's directory yields them
InListingOrder(t, f, r) ==
    \A i, j \in 2..Len(t) :
        (i < j /\ t[i].parent = t[j].parent) =>
            Pos(Listing(f, r, Front(t[i].path)), Last(t[i].path))
                < Pos(Listing(f, r, Front(t[j].path)), Last(t[j].path))

\* C25 as claimed: in the tree a get_file_tree builds of a filesystem without
\* symlinks, any two children of a node (two files, two directories, a file
\* and a directory) are in the order in which the enumeration of the directory
\* yields them.
C25_EnumerationOrder ==
    [][(walked' /\ ret'.k = "tree" /\ SymlinkFree(fs) /\ GetFileTree)
          => InListingOrder(ret'.v, fs, rev)]_vars

\* C26 as claimed: after clear_state the session configuration holds no saved
\* rules, loaded_rules is empty and the configuration on disk has no saved
\* rules.
C26_ClearedNoRules ==
    [][ClearState => /\ session'.ref = "default"
                     /\ SavedRules(session') = {}
                     /\ session'.loaded_rules = {}
                     /\ session'.disk = OnDisk({})]_vars

\* the cached tree and the cached fingerprint are both absent or both present
CachePaired == (cache = NoTree) <=> (cfg_hash = NoHash)

\* C27: in every state of a crawler between the calls made on it, the cached
\* tree and the cached fingerprint are both absent or both present; and a step
\* that leaves a new pair in the cache is a get_file_tree that walked, the
\* tree being the one it built and returned and the fingerprint the one the
\* configuration had when the call began.
C27_CachePaired ==
    /\ []CachePaired
    /\ [][(cache' # NoTree /\ <<cache', cfg_hash'>> # <<cache, cfg_hash>>) =>
             /\ walked'
             /\ ret' = Ret("get_file_tree", "tree", cache')
             /\ config' = config
             /\ \E t \in 0..MaxClock :
                   /\ HashFails(config) => t \in Readings(cfg_hash)
                   /\ cfg_hash' = _get_config_hash(config, t)
             /\ cache' = TreeWalk(fs, rev, root_path, config, <<root_path>>,
                                  RootOnly(root_path))
             /\ GetFileTree]_vars

\* a get_file_tree has walked and left its tree in the cache, with a
\* fingerprint
C27_Witness ==
    /\ ReturnedTree /\ walked
    /\ cache = ret.v
    /\ cfg_hash # NoHash

\* the last call was a get_file_tree that raised
RaisedTree == ret.op = "get_file_tree" /\ ret.k = "raised"

\* C28: a get_file_tree that raises leaves the configuration, the cached tree
\* and the cached fingerprint as they were, and what it leaves serves no later
\* get_file_tree from the cache, whatever the clock then reads; the call that
\* follows a raise is not served from the cache.
C28_RaiseStoresNothing ==
    /\ [][(ret'.k = "raised" /\ ret'.op = "get_file_tree" /\ GetFileTree) =>
             /\ UNCHANGED <<config, cache, cfg_hash>>
             /\ \A t \in IF HashFails(config') THEN Readings(cfg_hash') ELSE {0} :
                   ~CacheValid(cache', cfg_hash', _get_config_hash(config', t))]_vars
    /\ [][(RaisedTree /\ GetFileTree) => NotFromCache']_vars

\* a get_file_tree raised in the middle of its walk, on a crawler that held a
\* tree in its cache
C28_Witness == RaisedTree /\ walked /\ cache # NoTree

\* C29 as claimed: no two nodes of a tree returned by get_file_tree have the
\* same path, whatever symlinks the filesystem holds under the root.
C29_DistinctPaths == ReturnedTree => Cardinality(PathsOf(ret.v)) = Len(ret.v)

\* C30 as claimed: the set of the paths walk() returns is the set of the paths
\* of the file nodes of the tree a walking get_file_tree builds for the same
\* crawler, configuration and filesystem, dangling symlinks included.
C30_WalkMatchesTree ==
    [][(ret'.op = "walk" /\ ret'.k = "flat" /\ Walk) =>
          LET tree == TreeWalk(fs, rev, root_path, config, <<root_path>>,
                               RootOnly(root_path))
          IN tree # Raised => PathsOf(ret'.v) = CachedFiles(tree)]_vars

====
